---- MODULE Spec2Model ----
(***************************************************************************)
(* AnyparserLoader (anyparser_langchain/__init__.py): construction of the  *)
(* loader, the backend call made by aload, and the normalization of the    *)
(* backend's outcome into LangChain Documents.                             *)
(*                                                                         *)
(* Python values are modelled as follows.  None is the string NoneValue;   *)
(* a str is a TLA+ string; a list is a sequence; an object is a record     *)
(* whose field "kind" names its class.  A Document is a record             *)
(* [page_content, metadata] and its metadata dict is a record whose        *)
(* DOMAIN is the dict's key set.  An exception is a record [type, message].*)
(***************************************************************************)
EXTENDS Integers, Sequences, FiniteSets, TLC

VARIABLES
    args,       \* keyword arguments of the constructor call, NoArgs before it
    loader,     \* the constructed AnyparserLoader, NoLoader when there is none
    initError,  \* the exception __init__ raised, NoError when it raised none
    pc,         \* position of the aload coroutine
    parseCalls, \* arguments of the parser.parse calls made so far
    outcome,    \* what the awaited parser.parse produced
    documents,  \* the list aload returned
    error,      \* the exception the call raised
    call,       \* the method the caller invoked and the event loop it met
    loaders,    \* the loaders that concurrent calls are made on
    calls       \* the concurrent aload calls made so far

vars == <<args, loader, initError, pc, parseCalls, outcome, documents, error,
          call, loaders, calls>>

----------------------------------------------------------------------------
(* Bounds of the model *)

\* number of result items plus pages in one backend response
MaxSize == 3

\* number of loaders that concurrent calls are made on
MaxLoaders == 2

\* number of concurrent aload calls
MaxCalls == 2

----------------------------------------------------------------------------
(* Python values *)

NoneValue == "None"

\* bool(x) of an Optional[str]: None and "" are falsy
Truthy(x) == x # NoneValue /\ x # ""

NoError == [type |-> "none", message |-> ""]

ValueError(msg) == [type |-> "ValueError", message |-> msg]

\* the bare class name, type(x).__name__
TypeRepr_name(t) == t

\* str(type(x)) of a value whose class is named t
TypeRepr(t) == "<class '" \o t \o "'>"

----------------------------------------------------------------------------
(* AnyparserLoader.__init__ *)

NoArgs == [given |-> FALSE]

NoLoader == [constructed |-> FALSE]

Formats == {"markdown", "html", "json"}

Models == {"text", "ocr", "vlm", "lam", "crawler"}

\* the options object with the encoding argument not forwarded
AnyparserOption_no_encoding(a) ==
    [api_key         |-> a.anyparser_api_key,
     api_url         |-> a.anyparser_api_url,
     format          |-> a.format,
     model           |-> a.model,
     encoding        |-> "utf-8",
     image           |-> a.image,
     table           |-> a.table,
     ocr_language    |-> a.ocr_language,
     ocr_preset      |-> a.ocr_preset,
     url             |-> a.url,
     max_depth       |-> a.max_depth,
     max_executions  |-> a.max_executions,
     strategy        |-> a.strategy,
     traversal_scope |-> a.traversal_scope]

\* the AnyparserOption object built from the constructor's keyword arguments
AnyparserOption(a) ==
    [api_key         |-> a.anyparser_api_key,
     api_url         |-> a.anyparser_api_url,
     format          |-> a.format,
     model           |-> a.model,
     encoding        |-> a.encoding,
     image           |-> a.image,
     table           |-> a.table,
     ocr_language    |-> a.ocr_language,
     ocr_preset      |-> a.ocr_preset,
     url             |-> a.url,
     max_depth       |-> a.max_depth,
     max_executions  |-> a.max_executions,
     strategy        |-> a.strategy,
     traversal_scope |-> a.traversal_scope]

\* self.file_path = url if model == "crawler" else file_path
Target(a) == IF a.model = "crawler" THEN a.url ELSE a.file_path

\* the validation with "or" in place of "and" in its first test
Validate_or(a) ==
    IF a.file_path = NoneValue \/ a.url = NoneValue
    THEN ValueError("Either file_path or url must be provided")
    ELSE IF a.file_path # NoneValue /\ a.url # NoneValue
    THEN ValueError("Only one of file_path or url should be provided")
    ELSE NoError

\* the exception the input validation raises, NoError when it passes
Validate(a) ==
    IF a.file_path = NoneValue /\ a.url = NoneValue
    THEN ValueError("Either file_path or url must be provided")
    ELSE IF a.file_path # NoneValue /\ a.url # NoneValue
    THEN ValueError("Only one of file_path or url should be provided")
    ELSE NoError

\* the attributes __init__ sets on self
NewLoader(a) ==
    [constructed |-> TRUE,
     file_path   |-> Target(a),
     format      |-> a.format,
     model       |-> a.model,
     options     |-> AnyparserOption(a)]

__init__(a) ==
    /\ args = NoArgs
    /\ args' = [given |-> TRUE] @@ a
    /\ initError' = Validate(a)
    /\ loader' = IF Validate(a) # NoError THEN NoLoader ELSE NewLoader(a)
    /\ UNCHANGED <<pc, parseCalls, outcome, documents, error, call, loaders, calls>>

----------------------------------------------------------------------------
(* Results of the backend (anyparser_core), as the loader reads them *)

\* an image reference of a page
Image1 == [display_name |-> "img.png", image_index |-> 0, page |-> 1]

\* values of the optional text fields markdown and text
Markdowns == {NoneValue, "", "some markdown"}

Texts == {NoneValue, "", "some text"}

PageUrls == {"http://example.com", "http://example.com/page1"}

PdfPageNumbers == {1, 2}

PdfPages ==
    [kind : {"AnyparserPdfPage"}, page_number : PdfPageNumbers,
     markdown : Markdowns, text : Texts, images : {<<Image1>>}]

UrlResults ==
    [kind : {"AnyparserUrl"}, url : PageUrls, title : {"Title"},
     status_message : {"OK"}, status_code : {200}, politeness_delay : {100},
     total_characters : {100}, crawled_at : {"now"},
     markdown : Markdowns, text : Texts, images : {<<Image1>>}]

\* all sequences over S of length at most n
SeqsUpTo(S, n) == UNION {[1..k -> S] : k \in 0..n}

BaseResults ==
    [kind : {"AnyparserResultBase"}, rid : {"rid-base"},
     original_filename : {"base.docx"}, checksum : {"sum-base"},
     total_characters : {100}, markdown : Markdowns]

PdfResults(n) ==
    [kind : {"AnyparserPdfResult"}, rid : {"rid-pdf"},
     original_filename : {"test.pdf"}, checksum : {"sum-pdf"},
     total_characters : {200}, markdown : {"pdf result markdown"},
     items : SeqsUpTo(PdfPages, n)]

CrawlResults(n) ==
    [kind : {"AnyparserCrawlResult"}, rid : {"rid-crawl"},
     start_url : {"http://example.com"}, total_characters : {1000},
     markdown : {"crawl result markdown"},
     items : SeqsUpTo(UrlResults, n)]

\* a list element that is no Anyparser result object at all
StrItem == [kind |-> "str"]

HasPages(item) == item.kind \in {"AnyparserPdfResult", "AnyparserCrawlResult"}

\* the item itself plus its pages
ItemSize(item) == 1 + (IF HasPages(item) THEN Len(item.items) ELSE 0)

\* the result items of size at most n
ItemsUpTo(n) ==
    IF n < 1 THEN {}
    ELSE BaseResults \cup {StrItem} \cup PdfResults(n - 1) \cup CrawlResults(n - 1)

\* the lists of result items whose sizes add up to at most n
RECURSIVE ResultLists(_)
ResultLists(n) ==
    {<<>>} \cup UNION {{<<item>> \o rest : rest \in ResultLists(n - ItemSize(item))} :
                       item \in ItemsUpTo(n)}

\* what awaiting parser.parse can produce: a value of some type, or an exception
ParseValues ==
    [type : {"str"}, text : {"", "hello"}]
        \cup [type : {"list"}, items : ResultLists(MaxSize)]
        \cup [type : {"dict", "NoneType"}]

ParseFailures == [type : {"Exception"}, message : {"", "boom"}]

NoOutcome == [type |-> "none"]

----------------------------------------------------------------------------
(* Normalization of a backend result into Documents *)

Document(content, meta) == [page_content |-> content, metadata |-> meta]

\* Python's "a or b" on optional strings
Or(a, b) == IF Truthy(a) THEN a ELSE b

\* the fallback without the text: page.markdown or ""
PageContent_no_text(page) == Or(page.markdown, "")

\* page.markdown or page.text or ""
PageContent(page) == Or(Or(page.markdown, page.text), "")

\* result.markdown or ""
BaseContent(result) == Or(result.markdown, "")

\* {"name": img.display_name, "index": img.image_index, "page": img.page}
ImageDict(img) ==
    [name |-> img.display_name, index |-> img.image_index, page |-> img.page]

\* the loader's target as the source of a crawled page
UrlSource_target(self, url_result) == self.file_path

\* source of a crawled page's Document
UrlSource(self, url_result) == url_result.url

_create_document_from_url(self, url_result, page_number, total_pages) ==
    Document(PageContent(url_result),
             [source           |-> UrlSource(self, url_result),
              format           |-> self.format,
              page_number      |-> page_number,
              total_pages      |-> total_pages,
              url              |-> url_result.url,
              title            |-> url_result.title,
              status_message   |-> url_result.status_message,
              status_code      |-> url_result.status_code,
              politeness_delay |-> url_result.politeness_delay,
              total_characters |-> url_result.total_characters,
              crawled_at       |-> url_result.crawled_at,
              images           |-> IF url_result.images # <<>>
                                   THEN [k \in 1..Len(url_result.images) |->
                                             ImageDict(url_result.images[k])]
                                   ELSE <<>>])

\* the default of _create_document_from_url's total_pages parameter
TotalPages_default(result) == 1

\* total_pages = len(result.items)
TotalPages(result) == Len(result.items)

\* the page's position as its number, as for a crawled page
PdfPageNumber_position(page, i) == i

\* the default of _create_document_from_url's page_number parameter
PdfPageNumber_default(page, i) == 1

\* "page_number": page.page_number, for the page at 1-based position i
PdfPageNumber(page, i) == page.page_number

\* the Document of one page of a PDF result, the page at 1-based position i
PdfPageDocument(self, result, page, i) ==
    Document(PageContent(page),
             [source            |-> self.file_path,
              format            |-> self.format,
              page_number       |-> PdfPageNumber(page, i),
              total_pages       |-> TotalPages(result),
              rid               |-> result.rid,
              checksum          |-> result.checksum,
              total_characters  |-> result.total_characters,
              original_filename |-> result.original_filename,
              images            |-> IF page.images # <<>> THEN page.images ELSE <<>>])

\* the Document of a basic result
BaseDocument(self, result) ==
    Document(BaseContent(result),
             [source            |-> self.file_path,
              format            |-> self.format,
              rid               |-> result.rid,
              checksum          |-> result.checksum,
              total_characters  |-> result.total_characters,
              original_filename |-> result.original_filename])

\* a call's completion: the value it returns, or the exception it raises
Returns(v) == [raised |-> FALSE, value |-> v, exc |-> NoError]

Raises(e) == [raised |-> TRUE, value |-> <<>>, exc |-> e]

AttributeError(class, attr) ==
    [type    |-> "AttributeError",
     message |-> "'" \o class \o "' object has no attribute '" \o attr \o "'"]

_create_document_from_result(self, result) ==
    IF result.kind = "AnyparserCrawlResult"
    THEN Returns([i \in 1..Len(result.items) |->
                     _create_document_from_url(self, result.items[i], i,
                                               TotalPages(result))])
    ELSE IF result.kind = "AnyparserPdfResult"
    THEN Returns([i \in 1..Len(result.items) |->
                     PdfPageDocument(self, result, result.items[i], i)])
    ELSE IF result.kind = "AnyparserResultBase"
    THEN Returns(<<BaseDocument(self, result)>>)
    ELSE Raises(AttributeError(result.kind, "markdown"))

\* documents.append(new): the list of the item's Documents as one element
Extend_append(docs, new) == Append(docs, new)

\* the item's Documents put in front: documents[:0] = new
Extend_front(docs, new) == new \o docs

\* documents.extend(new)
Extend(docs, new) == docs \o new

\* a loop that stops at the first failing item and returns what it has built
RECURSIVE ExtendAll_partial(_, _, _, _)
ExtendAll_partial(self, result, i, docs) ==
    IF i > Len(result) THEN Returns(docs)
    ELSE LET r == _create_document_from_result(self, result[i])
         IN  IF r.raised THEN Returns(docs)
             ELSE ExtendAll_partial(self, result, i + 1, docs \o r.value)

\* for item in result: documents.extend(self._create_document_from_result(item))
RECURSIVE ExtendAll(_, _, _, _)
ExtendAll(self, result, i, docs) ==
    IF i > Len(result) THEN Returns(docs)
    ELSE LET r == _create_document_from_result(self, result[i])
         IN  IF r.raised THEN r
             ELSE ExtendAll(self, result, i + 1, Extend(docs, r.value))

\* a test that also rejects the empty string ("if not result")
IsStr_nonempty(result) == result.type = "str" /\ result.text # ""

\* isinstance(result, str)
IsStr(result) == result.type = "str"

\* isinstance(result, list)
IsList(result) == result.type = "list"

\* the body of aload's try block once parser.parse has returned result
Normalize(self, result) ==
    IF self.format \in {"markdown", "html"}
    THEN IF ~IsStr(result)
         THEN Raises(ValueError("Expected string for " \o self.format
                                \o " format, got: " \o TypeRepr(result.type)))
         ELSE Returns(<<Document(result.text,
                                 [source |-> self.file_path, format |-> self.format])>>)
    ELSE IF ~IsList(result)
         THEN Raises(ValueError("Expected list for JSON format, got: "
                                \o TypeRepr(result.type)))
         ELSE ExtendAll(self, result.items, 1, <<>>)

ErrorPrefix == "Error parsing document with Anyparser: "

\* a re-raise that passes the original description on without the prefix
Reraise_unprefixed(e) == ValueError(e.message)

\* a re-raise that drops the original description
Reraise_bare(e) == ValueError(ErrorPrefix)

\* except Exception as e: raise ValueError(f"Error parsing document with Anyparser: {str(e)}")
Reraise(e) == ValueError(ErrorPrefix \o e.message)

----------------------------------------------------------------------------
(* AnyparserLoader.aload *)

\* aload runs up to its await: parser.parse is called with self.file_path
aload ==
    /\ loader # NoLoader
    /\ pc = "idle"
    /\ call' = [method |-> "aload"]
    /\ parseCalls' = Append(parseCalls, loader.file_path)
    /\ pc' = "awaiting"
    /\ UNCHANGED <<args, loader, initError, outcome, documents, error, loaders, calls>>

\* parser.parse returns result: aload runs from the await to its end
aload_parsed ==
    /\ pc = "awaiting"
    /\ \E result \in ParseValues :
        /\ outcome' = result
        /\ LET r == Normalize(loader, result)
           IN  IF r.raised
               THEN /\ pc' = "raised"
                    /\ error' = Reraise(r.exc)
                    /\ UNCHANGED documents
               ELSE /\ pc' = "returned"
                    /\ documents' = r.value
                    /\ UNCHANGED error
    /\ UNCHANGED <<args, loader, initError, parseCalls, call, loaders, calls>>

\* parser.parse raises e: the except clause of aload re-raises it
aload_failed ==
    /\ pc = "awaiting"
    /\ \E e \in ParseFailures :
        /\ outcome' = e
        /\ error' = Reraise(e)
    /\ pc' = "raised"
    /\ UNCHANGED <<args, loader, initError, parseCalls, documents, call, loaders, calls>>

\* how a whole aload call on self ends when parser.parse ends with out
AloadResult(self, out) ==
    IF out.type = "Exception" THEN Raises(Reraise(out))
    ELSE LET r == Normalize(self, out)
         IN  IF r.raised THEN Raises(Reraise(r.exc)) ELSE r

----------------------------------------------------------------------------
(* AnyparserLoader.load *)

NoCall == [method |-> "none"]

\* what asyncio.get_event_loop() finds in the calling thread: a loop that is
\* not running, the loop that is running the caller, or no loop at all
EventLoops == {"idle", "running", "none"}

RuntimeError(msg) == [type |-> "RuntimeError", message |-> msg]

\* the exception get_event_loop or run_until_complete raises before the
\* coroutine is started, NoError when the loop takes it
LoopError(loop) ==
    IF loop = "none"
    THEN RuntimeError("There is no current event loop in thread 'Thread-1'.")
    ELSE IF loop = "running"
    THEN RuntimeError("This event loop is already running")
    ELSE NoError

\* load runs up to the await of the aload coroutine it hands to the loop;
\* run_until_complete then returns what aload returns or raises what it raises
load ==
    /\ loader # NoLoader
    /\ pc = "idle"
    /\ \E loop \in EventLoops :
        /\ call' = [method |-> "load", loop |-> loop]
        /\ IF LoopError(loop) # NoError
           THEN /\ pc' = "raised"
                /\ error' = LoopError(loop)
                /\ UNCHANGED parseCalls
           ELSE /\ pc' = "awaiting"
                /\ parseCalls' = Append(parseCalls, loader.file_path)
                /\ UNCHANGED error
    /\ UNCHANGED <<args, loader, initError, outcome, documents, loaders, calls>>

----------------------------------------------------------------------------
(* Specification *)

\* arguments the constructor leaves at their defaults
Defaults ==
    [file_path         |-> NoneValue,
     anyparser_api_key |-> NoneValue,
     anyparser_api_url |-> NoneValue,
     format            |-> "markdown",
     model             |-> "text",
     encoding          |-> "utf-8",
     image             |-> <<>>,
     table             |-> <<>>,
     ocr_language      |-> <<>>,
     ocr_preset        |-> NoneValue,
     url               |-> NoneValue,
     max_depth         |-> <<>>,
     max_executions    |-> <<>>,
     strategy          |-> NoneValue,
     traversal_scope   |-> NoneValue]

FilePaths == {NoneValue, "test.pdf"}

Urls == {NoneValue, "http://example.com"}

\* constructor calls that set the source, the format and the model
SourceArgs ==
    {[Defaults EXCEPT !.file_path = fp, !.url = u, !.format = f, !.model = m] :
        fp \in FilePaths, u \in Urls, f \in Formats, m \in {"text", "crawler"}}

Init ==
    /\ args = NoArgs
    /\ loader = NoLoader
    /\ initError = NoError
    /\ pc = "idle"
    /\ parseCalls = <<>>
    /\ outcome = NoOutcome
    /\ documents = <<>>
    /\ error = NoError
    /\ call = NoCall
    /\ loaders = <<>>
    /\ calls = <<>>

Next ==
    \/ \E a \in SourceArgs : __init__(a)
    \/ aload
    \/ load
    \/ aload_parsed
    \/ aload_failed

Spec == Init /\ [][Next]_vars

\* the parameters of a after binding, with the names the caller passed: a
\* parameter the call leaves out takes the default of the signature
Bind(kw) == [supplied |-> DOMAIN kw] @@ kw @@ Defaults

\* the keyword arguments that differ from the defaults in a
Keywords(a) == {n \in DOMAIN Defaults : a[n] # Defaults[n]}

\* the call that passes the keywords of a and, explicitly, those of extra
CallOf(a, extra) == [n \in Keywords(a) \cup extra |-> a[n]]

\* keywords a caller may pass although they hold the default
ExtraKeywords == {{}, {"format", "model", "encoding"}, {"image", "max_depth"}}

\* a file to parse with a choice of the options that SourceOptionArgs fixes
OtherOptionArgs ==
    {[Defaults EXCEPT !.file_path = "test.pdf", !.anyparser_api_url = au,
                      !.table = t, !.ocr_language = ol, !.ocr_preset = op,
                      !.max_depth = md, !.max_executions = me,
                      !.traversal_scope = ts] :
        au \in {NoneValue, "http://test.com"}, t \in {<<>>, <<FALSE>>},
        ol \in {<<>>, <<"ENGLISH">>}, op \in {NoneValue, "DOCUMENT"},
        md \in {<<>>, <<3>>}, me \in {<<>>, <<100>>},
        ts \in {NoneValue, "subtree", "domain"}}

\* every source, format and model with a choice of the other options
SourceOptionArgs ==
    {[Defaults EXCEPT !.file_path = fp, !.url = u, !.format = f, !.model = m,
                      !.anyparser_api_key = k, !.encoding = e, !.image = i,
                      !.strategy = s] :
        fp \in FilePaths, u \in Urls, f \in Formats, m \in Models,
        k \in {NoneValue, "test_key"}, e \in {"utf-8", "latin1"},
        i \in {<<>>, <<TRUE>>, <<FALSE>>}, s \in {NoneValue, "LIFO", "FIFO"}}

\* the constructor calls of SpecInit, bound
InitArgs ==
    {Bind(CallOf(a, extra)) :
        a \in SourceOptionArgs \cup OtherOptionArgs, extra \in ExtraKeywords}

NextInit == \E a \in InitArgs : __init__(a)

\* the constructor alone, over InitArgs
SpecInit == Init /\ [][NextInit]_vars

----------------------------------------------------------------------------
(* Construction *)

\* C1: a constructor call with neither file_path nor url raises "Either
\* file_path or url must be provided" and one with both raises "Only one of
\* file_path or url should be provided"; neither yields a loader.  A call with
\* exactly one of them raises nothing and yields a loader, whatever the other
\* arguments are.
C1_SourceValidation ==
    args # NoArgs =>
        LET noFile == args.file_path = NoneValue
            noUrl  == args.url = NoneValue
        IN  /\ (noFile /\ noUrl) =>
                /\ initError = [type |-> "ValueError",
                                message |-> "Either file_path or url must be provided"]
                /\ loader = NoLoader
            /\ (~noFile /\ ~noUrl) =>
                /\ initError = [type |-> "ValueError",
                                message |-> "Only one of file_path or url should be provided"]
                /\ loader = NoLoader
            /\ (noFile # noUrl) =>
                /\ initError = NoError
                /\ loader # NoLoader

\* a call with both sources and non-default options has been rejected
C1_Witness ==
    /\ args # NoArgs
    /\ args.file_path = "test.pdf"
    /\ args.url = "http://example.com"
    /\ args.model = "ocr"
    /\ args.image = <<TRUE>>
    /\ initError.message = "Only one of file_path or url should be provided"

\* C2: the target of every constructed loader (its file_path attribute) is
\* non-empty and is the one source the call supplied: the file path when
\* file_path was given, the URL when url was given, whatever the model.
C2_TargetIsSuppliedSource ==
    loader # NoLoader =>
        /\ loader.file_path # NoneValue
        /\ loader.file_path # ""
        /\ loader.file_path =
               (IF args.file_path # NoneValue THEN args.file_path ELSE args.url)

----------------------------------------------------------------------------
(* Loading: markdown and html *)

\* aload has ended, by returning or by raising
Done == pc \in {"returned", "raised"}

\* parser.parse returned a value (it did not raise)
Parsed == outcome.type \in {"str", "list", "dict", "NoneType"}

\* C3: under format markdown or html, when the backend returns a string s
\* (the empty string included) aload returns exactly one Document whose
\* page_content is s and whose metadata is {source: target, format: format},
\* with no other key.
C3_StringOutcome ==
    (Done /\ loader.format \in {"markdown", "html"} /\ outcome.type = "str") =>
        /\ pc = "returned"
        /\ Len(documents) = 1
        /\ documents[1].page_content = outcome.text
        /\ DOMAIN documents[1].metadata = {"source", "format"}
        /\ documents[1].metadata.source = loader.file_path
        /\ documents[1].metadata.format = loader.format

\* an html load of the empty string has returned its one Document
C3_Witness ==
    /\ pc = "returned"
    /\ loader.format = "html"
    /\ outcome = [type |-> "str", text |-> ""]
    /\ Len(documents) = 1
    /\ documents[1].page_content = ""

\* C4: when the value the backend returned does not have the shape the format
\* demands (not a string under markdown or html, not a list under json), aload
\* raises an error whose message names the expected type and the actual type,
\* and returns no Document.
C4_ShapeMismatch ==
    (/\ Done
     /\ Parsed
     /\ \/ loader.format \in {"markdown", "html"} /\ outcome.type # "str"
        \/ loader.format = "json" /\ outcome.type # "list") =>
        LET expected == IF loader.format = "json"
                        THEN "Expected list for JSON format, got: "
                        ELSE "Expected string for " \o loader.format \o " format, got: "
            actual == CASE outcome.type = "str"      -> "<class 'str'>"
                        [] outcome.type = "list"     -> "<class 'list'>"
                        [] outcome.type = "dict"     -> "<class 'dict'>"
                        [] outcome.type = "NoneType" -> "<class 'NoneType'>"
        IN  /\ pc = "raised"
            /\ documents = <<>>
            /\ error.type = "ValueError"
            /\ error.message =
                   "Error parsing document with Anyparser: " \o expected \o actual

\* a json load whose backend returned a string has raised
C4_Witness ==
    /\ pc = "raised"
    /\ loader.format = "json"
    /\ outcome.type = "str"
    /\ error.message =
           "Error parsing document with Anyparser: Expected list for JSON format, got: <class 'str'>"

\* C5: when parser.parse raises a failure whose description is m, aload raises
\* an error whose message is "Error parsing document with Anyparser: " followed
\* by m, under every format, and returns no Document.
C5_BackendFailure ==
    (Done /\ outcome.type = "Exception") =>
        /\ pc = "raised"
        /\ documents = <<>>
        /\ error.type = "ValueError"
        /\ error.message = "Error parsing document with Anyparser: " \o outcome.message

\* a json load whose backend raised "boom" has raised
C5_Witness ==
    /\ pc = "raised"
    /\ loader.format = "json"
    /\ outcome = [type |-> "Exception", message |-> "boom"]
    /\ error.message = "Error parsing document with Anyparser: boom"

----------------------------------------------------------------------------
(* Loading: json *)

IsResult(item) ==
    item.kind \in {"AnyparserResultBase", "AnyparserPdfResult", "AnyparserCrawlResult"}

\* a json load has ended whose backend returned a list of result items
JsonDone ==
    /\ Done
    /\ loader.format = "json"
    /\ outcome.type = "list"
    /\ \A i \in 1..Len(outcome.items) : IsResult(outcome.items[i])

\* the number of Documents an item stands for: its pages, or 1 for a base result
Count(item) == IF item.kind = "AnyparserResultBase" THEN 1 ELSE Len(item.items)

\* the Documents the first n items stand for
RECURSIVE CountUpTo(_, _)
CountUpTo(items, n) ==
    IF n = 0 THEN 0 ELSE CountUpTo(items, n - 1) + Count(items[n])

\* where the Document of page j of item i belongs in the returned list
Position(i, j) == CountUpTo(outcome.items, i - 1) + j

\* every (item, page) pair of the outcome has a Document at its position
Placed == \A i \in 1..Len(outcome.items) :
              \A j \in 1..Count(outcome.items[i]) : Position(i, j) <= Len(documents)

\* C6: under json, when the backend returns a list of result items, aload
\* returns as many Documents as the items stand for: 1 for each base result,
\* the number of pages for each PDF result and for each crawl result; an empty
\* list and an item without pages add none.
C6_DocumentCount ==
    JsonDone =>
        /\ pc = "returned"
        /\ Len(documents) = CountUpTo(outcome.items, Len(outcome.items))

\* a PDF result without pages followed by a base result has given one Document
C6_Witness ==
    /\ JsonDone
    /\ pc = "returned"
    /\ Len(outcome.items) = 2
    /\ outcome.items[1].kind = "AnyparserPdfResult"
    /\ outcome.items[1].items = <<>>
    /\ outcome.items[2].kind = "AnyparserResultBase"
    /\ Len(documents) = 1

\* item i of the outcome and, for a PDF or crawl result, its page j
ItemAt(i) == outcome.items[i]

PageAt(i, j) == outcome.items[i].items[j]

BaseKeys ==
    {"source", "format", "rid", "checksum", "total_characters", "original_filename"}

PdfKeys == BaseKeys \cup {"page_number", "total_pages", "images"}

CrawlKeys ==
    {"source", "format", "page_number", "total_pages", "url", "title",
     "status_message", "status_code", "politeness_delay", "total_characters",
     "crawled_at", "images"}

\* doc is a Document of page j of item: it has the keys of the item's kind and
\* carries the item's rid, or the page's number or URL, and content of the page
DerivedFrom(doc, item, j) ==
    CASE item.kind = "AnyparserResultBase" ->
            /\ DOMAIN doc.metadata = BaseKeys
            /\ doc.metadata.rid = item.rid
            /\ doc.page_content \in {item.markdown, ""}
      [] item.kind = "AnyparserPdfResult" ->
            /\ DOMAIN doc.metadata = PdfKeys
            /\ doc.metadata.rid = item.rid
            /\ doc.metadata.page_number = item.items[j].page_number
            /\ doc.page_content \in {item.items[j].markdown, item.items[j].text, ""}
      [] item.kind = "AnyparserCrawlResult" ->
            /\ DOMAIN doc.metadata = CrawlKeys
            /\ doc.metadata.url = item.items[j].url
            /\ doc.page_content \in {item.items[j].markdown, item.items[j].text, ""}

\* C7: under json, the returned Documents are those of the first item, then
\* those of the second, and so on, and the Documents of one PDF or crawl result
\* follow the order of its pages: the Document of page j of item i stands after
\* the Documents of all earlier items and of the earlier pages of item i.
C7_InputOrder ==
    JsonDone =>
        /\ Len(documents) = Position(Len(outcome.items) + 1, 0)
        /\ \A i \in 1..Len(outcome.items) :
              \A j \in 1..Count(ItemAt(i)) :
                  /\ Position(i, j) <= Len(documents)
                  /\ DerivedFrom(documents[Position(i, j)], ItemAt(i), j)

\* a crawl result of one page followed by a base result has given the page's
\* Document and then the base result's
C7_Witness ==
    /\ JsonDone
    /\ pc = "returned"
    /\ Len(outcome.items) = 2
    /\ ItemAt(1).kind = "AnyparserCrawlResult"
    /\ Len(ItemAt(1).items) = 1
    /\ ItemAt(2).kind = "AnyparserResultBase"
    /\ Len(documents) = 2
    /\ DOMAIN documents[1].metadata = CrawlKeys
    /\ DOMAIN documents[2].metadata = BaseKeys

\* the content the fallback law gives a PDF page or a crawled page
LawContent(markdown, text) ==
    IF markdown \notin {NoneValue, ""} THEN markdown
    ELSE IF text \notin {NoneValue, ""} THEN text
    ELSE ""

\* C8: the page_content of the Document of a PDF page or a crawled page is the
\* page's markdown when that is non-empty, else the page's text when that is
\* non-empty, else the empty string; that of a base result is its markdown or
\* the empty string.  No returned Document, of any branch, has None as content.
C8_FallbackLaw ==
    /\ JsonDone =>
        \A i \in 1..Len(outcome.items) :
            \A j \in 1..Count(ItemAt(i)) :
                /\ Position(i, j) <= Len(documents)
                /\ documents[Position(i, j)].page_content =
                       IF ItemAt(i).kind = "AnyparserResultBase"
                       THEN LawContent(ItemAt(i).markdown, NoneValue)
                       ELSE LawContent(PageAt(i, j).markdown, PageAt(i, j).text)
    /\ pc = "returned" =>
        \A k \in 1..Len(documents) : documents[k].page_content # NoneValue

\* a PDF page with empty markdown and some text has given a Document of the text
C8_Witness ==
    /\ JsonDone
    /\ pc = "returned"
    /\ Len(outcome.items) = 1
    /\ ItemAt(1).kind = "AnyparserPdfResult"
    /\ Len(ItemAt(1).items) = 2
    /\ PageAt(1, 2).markdown = ""
    /\ PageAt(1, 2).text = "some text"
    /\ documents[2].page_content = "some text"

\* C9: every Document derived from a PDF result or a crawl result of N pages
\* has total_pages N, and the page_number values of the Documents of a crawl
\* result are 1, 2, ..., N in the order of its pages.
C9_PageNumbering ==
    JsonDone =>
        \A i \in 1..Len(outcome.items) :
            ItemAt(i).kind # "AnyparserResultBase" =>
                \A j \in 1..Len(ItemAt(i).items) :
                    /\ Position(i, j) <= Len(documents)
                    /\ documents[Position(i, j)].metadata.total_pages =
                           Len(ItemAt(i).items)
                    /\ ItemAt(i).kind = "AnyparserCrawlResult" =>
                           documents[Position(i, j)].metadata.page_number = j

\* a crawl result of two pages has given Documents numbered 1 and 2 of 2
C9_Witness ==
    /\ JsonDone
    /\ pc = "returned"
    /\ Len(outcome.items) = 1
    /\ ItemAt(1).kind = "AnyparserCrawlResult"
    /\ Len(ItemAt(1).items) = 2
    /\ documents[1].metadata.page_number = 1
    /\ documents[2].metadata.page_number = 2
    /\ documents[2].metadata.total_pages = 2

\* C10: the source and the url of the Document of a crawled page are that
\* page's own URL: they are taken from the page, so they differ from the
\* loader's target and from the crawl's start URL whenever the page's URL
\* does.  The source of the Document of a base result or of a PDF page is the
\* loader's target.
C10_SourceField ==
    JsonDone =>
        \A i \in 1..Len(outcome.items) :
            \A j \in 1..Count(ItemAt(i)) :
                /\ Position(i, j) <= Len(documents)
                /\ LET meta == documents[Position(i, j)].metadata
                   IN  IF ItemAt(i).kind = "AnyparserCrawlResult"
                       THEN /\ meta.source = PageAt(i, j).url
                            /\ meta.url = PageAt(i, j).url
                            /\ PageAt(i, j).url # loader.file_path =>
                                   meta.source # loader.file_path
                            /\ PageAt(i, j).url # ItemAt(i).start_url =>
                                   meta.source # ItemAt(i).start_url
                       ELSE meta.source = loader.file_path

\* a loader of http://example.com has given the Document of the crawled page
\* http://example.com/page1 that page's URL as source
C10_Witness ==
    /\ JsonDone
    /\ pc = "returned"
    /\ loader.file_path = "http://example.com"
    /\ Len(outcome.items) = 1
    /\ ItemAt(1).kind = "AnyparserCrawlResult"
    /\ ItemAt(1).start_url = "http://example.com"
    /\ Len(ItemAt(1).items) = 1
    /\ PageAt(1, 1).url = "http://example.com/page1"
    /\ documents[1].metadata.source = "http://example.com/page1"

----------------------------------------------------------------------------
(* Scenario B and the metadata of PDF pages *)

\* a json load has ended whose backend returned one PDF result of two pages
ScenarioB ==
    /\ JsonDone
    /\ Len(outcome.items) = 1
    /\ ItemAt(1).kind = "AnyparserPdfResult"
    /\ Len(ItemAt(1).items) = 2

\* C11 as stated: in scenario B aload returns 2 Documents and the second has
\* total_pages 2 and page_number 2.
C11_SecondPageIsNumberTwo ==
    ScenarioB =>
        /\ pc = "returned"
        /\ Len(documents) = 2
        /\ documents[2].metadata.total_pages = 2
        /\ documents[2].metadata.page_number = 2

\* C11 as amended: in scenario B aload returns 2 Documents and the second has
\* total_pages 2 and, as page_number, the second page's own page_number: 2
\* when the backend numbered that page 2.
C11_ScenarioB ==
    ScenarioB =>
        /\ pc = "returned"
        /\ Len(documents) = 2
        /\ documents[2].metadata.total_pages = 2
        /\ documents[2].metadata.page_number = PageAt(1, 2).page_number
        /\ PageAt(1, 2).page_number = 2 => documents[2].metadata.page_number = 2

\* scenario B with pages numbered 1 and 2 has given a second Document numbered 2
C11_Witness ==
    /\ ScenarioB
    /\ pc = "returned"
    /\ PageAt(1, 1).page_number = 1
    /\ PageAt(1, 2).page_number = 2
    /\ Len(documents) = 2
    /\ documents[2].metadata.total_pages = 2
    /\ documents[2].metadata.page_number = 2

\* C17: the Document of a page of a PDF result has, as page_number, the
\* page's own page_number, whatever the page's position among the pages of the
\* result, and has the rid, the checksum, the total_characters and the
\* original_filename of the PDF result that the page belongs to.
C17_PdfPageMetadata ==
    JsonDone =>
        \A i \in 1..Len(outcome.items) :
            ItemAt(i).kind = "AnyparserPdfResult" =>
                \A j \in 1..Len(ItemAt(i).items) :
                    /\ Position(i, j) <= Len(documents)
                    /\ LET meta == documents[Position(i, j)].metadata
                       IN  /\ meta.page_number = PageAt(i, j).page_number
                           /\ PageAt(i, j).page_number # j => meta.page_number # j
                           /\ meta.rid = ItemAt(i).rid
                           /\ meta.checksum = ItemAt(i).checksum
                           /\ meta.total_characters = ItemAt(i).total_characters
                           /\ meta.original_filename = ItemAt(i).original_filename

\* a PDF result whose pages come numbered 2 and then 1 has given Documents
\* numbered 2 and then 1 that carry the rid and the file name of the result
C17_Witness ==
    /\ ScenarioB
    /\ pc = "returned"
    /\ PageAt(1, 1).page_number = 2
    /\ PageAt(1, 2).page_number = 1
    /\ documents[1].metadata.page_number = 2
    /\ documents[2].metadata.page_number = 1
    /\ documents[1].metadata.rid = "rid-pdf"
    /\ documents[2].metadata.original_filename = "test.pdf"

----------------------------------------------------------------------------
(* Failures *)

\* a json load has ended whose backend returned a list in which some element
\* is no result object, so that building its Document fails
ItemFailed ==
    /\ Done
    /\ loader.format = "json"
    /\ outcome.type = "list"
    /\ \E i \in 1..Len(outcome.items) : ~IsResult(outcome.items[i])

\* C12: a call ends either by returning Documents, without an error, or by
\* raising an error, without any Document, never both.  A returned json list
\* is complete, and when building the Documents of some item fails the call
\* raises and the Documents built from the earlier items are not returned.
C12_NoPartialResults ==
    /\ Done =>
        \/ pc = "returned" /\ error = NoError
        \/ pc = "raised" /\ error # NoError /\ documents = <<>>
    /\ (JsonDone /\ pc = "returned") =>
        Len(documents) = CountUpTo(outcome.items, Len(outcome.items))
    /\ ItemFailed =>
        /\ pc = "raised"
        /\ error # NoError
        /\ documents = <<>>

\* a base result followed by a str has made the call raise, without Documents
C12_Witness ==
    /\ ItemFailed
    /\ Len(outcome.items) = 2
    /\ ItemAt(1).kind = "AnyparserResultBase"
    /\ ItemAt(2).kind = "str"
    /\ pc = "raised"
    /\ documents = <<>>

\* the description of the failure that made the call raise, at its origin
OriginMessage ==
    IF outcome.type = "Exception"
    THEN outcome.message
    ELSE IF loader.format \in {"markdown", "html"}
    THEN "Expected string for " \o loader.format \o " format, got: <class '"
             \o outcome.type \o "'>"
    ELSE IF outcome.type # "list"
    THEN "Expected list for JSON format, got: <class '" \o outcome.type \o "'>"
    ELSE "'str' object has no attribute 'markdown'"

\* C18: every failure that a started aload raises is a ValueError whose
\* message is "Error parsing document with Anyparser: " followed by the
\* description of the original failure, whether parser.parse raised it, aload
\* itself raised it on a value of the wrong shape, or building the Document of
\* a list element that is no result object raised it; a shape mismatch
\* therefore never reaches the caller with its bare "Expected ..." message.
C18_OneErrorKind ==
    (pc = "raised" /\ parseCalls # <<>>) =>
        /\ outcome # NoOutcome
        /\ outcome.type \in {"Exception", "str", "list", "dict", "NoneType"}
        /\ error.type = "ValueError"
        /\ error.message = "Error parsing document with Anyparser: " \o OriginMessage
        /\ error.message # OriginMessage

\* a markdown load whose backend returned a dict has raised the prefixed
\* shape-mismatch message
C18_Witness ==
    /\ pc = "raised"
    /\ call = [method |-> "aload"]
    /\ loader.format = "markdown"
    /\ outcome.type = "dict"
    /\ error.type = "ValueError"
    /\ error.message =
           "Error parsing document with Anyparser: Expected string for markdown format, got: <class 'dict'>"

----------------------------------------------------------------------------
(* The options object *)

\* the constructor parameter that an attribute of the options object is built
\* from
OptionArg(f) ==
    IF f = "api_key" THEN "anyparser_api_key"
    ELSE IF f = "api_url" THEN "anyparser_api_url"
    ELSE f

OptionNames ==
    {"api_key", "api_url", "format", "model", "encoding", "image", "table",
     "ocr_language", "ocr_preset", "url", "max_depth", "max_executions",
     "strategy", "traversal_scope"}

\* every parameter absent
Absent ==
    [Defaults EXCEPT !.format = NoneValue, !.model = NoneValue,
                     !.encoding = NoneValue]

\* the options hold the bound parameters, and unsupplied(f) where the caller
\* passed none
OptionsHold(unsupplied) ==
    (args # NoArgs /\ loader # NoLoader) =>
        /\ DOMAIN loader.options = OptionNames
        /\ \A f \in OptionNames :
            /\ loader.options[f] = args[OptionArg(f)]
            /\ OptionArg(f) \notin args.supplied =>
                loader.options[f] = unsupplied[OptionArg(f)]

\* C16 as stated: after a successful construction the options object holds
\* exactly the fourteen options that were supplied, and None for every option
\* that was not supplied.
C16_UnsuppliedIsNone == OptionsHold(Absent)

\* C16: after a successful construction the options object holds exactly the
\* fourteen options, each equal to the argument that was supplied; an option
\* that was not supplied holds the default of the constructor's signature:
\* "markdown" for format, "text" for model, "utf-8" for encoding and None for
\* every other option.
C16_OptionsPassThrough == OptionsHold(Defaults)

\* a loader built with encoding and image supplied and format, model and
\* max_depth left out
C16_Witness ==
    /\ args # NoArgs
    /\ loader # NoLoader
    /\ args.supplied = {"file_path", "anyparser_api_key", "encoding", "image"}
    /\ loader.options.api_key = "test_key"
    /\ loader.options.encoding = "latin1"
    /\ loader.options.image = <<TRUE>>
    /\ loader.options.format = "markdown"
    /\ loader.options.model = "text"
    /\ loader.options.max_depth = <<>>

----------------------------------------------------------------------------
(* Concurrent aload calls *)

\* a loader that caches the format of the last outcome on itself
SelfAfterAload_sets_format(self, out) ==
    [self EXCEPT !.format = IF out.type = "list" THEN "json" ELSE "markdown"]

\* the loader once an aload call on it has ended: aload assigns no attribute
SelfAfterAload(self, out) == self

\* the loaders of the concurrent calls: a file as markdown or json, a crawl
CallLoaders ==
    {NewLoader([Defaults EXCEPT !.file_path = "test.pdf", !.format = f]) :
        f \in {"markdown", "json"}}
    \cup {NewLoader([Defaults EXCEPT !.url = "http://example.com",
                                     !.model = "crawler", !.format = "json"])}

\* the outcomes of parser.parse in the concurrent calls
CallOutcomes ==
    {[type |-> "str", text |-> "hello"],
     [type |-> "list", items |-> <<>>],
     [type |-> "list",
      items |-> <<[kind |-> "AnyparserResultBase", rid |-> "rid-base",
                   original_filename |-> "base.docx", checksum |-> "sum-base",
                   total_characters |-> 100, markdown |-> "some markdown"]>>],
     [type |-> "list", items |-> <<StrItem>>],
     [type |-> "Exception", message |-> "boom"]}

\* an aload call on loaders[l] runs up to its await
call_aload ==
    /\ Len(calls) < MaxCalls
    /\ \E l \in 1..Len(loaders) :
        calls' = Append(calls, [self      |-> l,
                                pc        |-> "awaiting",
                                parsed    |-> loaders[l].file_path,
                                outcome   |-> NoOutcome,
                                documents |-> <<>>,
                                error     |-> NoError])
    /\ UNCHANGED <<args, loader, initError, pc, parseCalls, outcome, documents,
                   error, call, loaders>>

\* the parser.parse of call c ends with out: the call runs to its end
call_resumed ==
    /\ \E c \in 1..Len(calls) :
        /\ calls[c].pc = "awaiting"
        /\ \E out \in CallOutcomes :
            LET self == loaders[calls[c].self]
                r    == AloadResult(self, out)
            IN  /\ calls' = [calls EXCEPT
                               ![c].outcome   = out,
                               ![c].pc        = IF r.raised THEN "raised" ELSE "returned",
                               ![c].documents = r.value,
                               ![c].error     = r.exc]
                /\ loaders' = [loaders EXCEPT ![calls[c].self] = SelfAfterAload(self, out)]
    /\ UNCHANGED <<args, loader, initError, pc, parseCalls, outcome, documents,
                   error, call>>

InitCalls ==
    /\ args = NoArgs
    /\ loader = NoLoader
    /\ initError = NoError
    /\ pc = "idle"
    /\ parseCalls = <<>>
    /\ outcome = NoOutcome
    /\ documents = <<>>
    /\ error = NoError
    /\ call = NoCall
    /\ loaders \in [1..MaxLoaders -> CallLoaders]
    /\ calls = <<>>

NextCalls == call_aload \/ call_resumed

\* concurrent aload calls on constructed loaders
SpecCalls == InitCalls /\ [][NextCalls]_vars

CallDone(c) == calls[c].pc \in {"returned", "raised"}

\* calls that met the same configuration and the same outcome ended alike
Determined ==
    \A c, d \in 1..Len(calls) :
        (/\ CallDone(c)
         /\ CallDone(d)
         /\ loaders[calls[c].self] = loaders[calls[d].self]
         /\ calls[c].outcome = calls[d].outcome) =>
            /\ calls[c].pc = calls[d].pc
            /\ calls[c].documents = calls[d].documents
            /\ calls[c].error = calls[d].error

\* C15: in every interleaving of aload calls on one loader or on several, no
\* step of a call changes the target, format, model or options of any loader,
\* and two calls that meet the same configuration and the same backend outcome
\* end alike, whatever the other calls do: a call's result depends on nothing
\* but its loader's configuration and its own outcome.
C15_IndependentCalls == []Determined /\ [][loaders' = loaders]_vars

\* two calls on one loader overlap: the second has returned while the first
\* still awaits the backend
C15_Witness ==
    /\ Len(calls) = 2
    /\ calls[1].self = calls[2].self
    /\ calls[1].pc = "awaiting"
    /\ calls[2].pc = "returned"
    /\ Len(calls[2].documents) = 1

----------------------------------------------------------------------------
(* The blocking call and the backend call *)

\* C13: load means what aload means: whatever the configuration, the backend's
\* outcome and the context load is called in, a load call ends as the aload
\* call on that outcome ends, with the same Documents or the same error.
C13_LoadIsAload ==
    (Done /\ call.method = "load") =>
        /\ outcome # NoOutcome
        /\ LET r == AloadResult(loader, outcome)
           IN  IF r.raised
               THEN pc = "raised" /\ error = r.exc
               ELSE pc = "returned" /\ error = NoError /\ documents = r.value

\* C14: every load or aload call invokes parser.parse exactly once, with the
\* loader's target, before any check of the outcome and before any Document is
\* built, and does not invoke it again when it fails.
C14_ParseOnce ==
    /\ call = NoCall => parseCalls = <<>>
    /\ call # NoCall => parseCalls = <<loader.file_path>>
    /\ Done => Len(parseCalls) = 1

\* C14 for the calls whose coroutine is started: aload, and load on a loop that
\* is not running
C14_ParseOnceWhenStarted ==
    /\ call = NoCall => parseCalls = <<>>
    /\ (call # NoCall /\ (call.method = "load" => call.loop = "idle")) =>
           parseCalls = <<loader.file_path>>

====
